---------------------------- MODULE Spec2Model ----------------------------
(***************************************************************************)
(* Model of src/script.js: the cart state (cart, selectedItems), the cart  *)
(* operations addToCart, addAllToCart, toggleSelectAll, toggleItem,        *)
(* changeQty, removeItem, checkout and the totals shown by updateTotals;   *)
(* the floating cart's drag and click handlers with toggleView; and the    *)
(* notifications of showNotification with their timers.                    *)
(*                                                                         *)
(* Indices are 0-based as in the source; cart[index] of the source is      *)
(* cart[index + 1] here.  Money is in whole pesos, the discount in tenths  *)
(* of a percent (toFixed(1) keeps one decimal).                            *)
(***************************************************************************)
EXTENDS Integers, Sequences, FiniteSets, TLC

(***************************************************************************)
(* Bounds of the exploration.                                              *)
(***************************************************************************)
\* number of distinct catalog ids the explored catalog keeps (14, 15, ...)
MaxIds == 1
\* quantities are explored up to MaxQty
MaxQty == 2
\* changeQty is called with change in -MaxDelta..MaxDelta
MaxDelta == 2
\* out-of-range indices reach MaxOut below 0 and MaxOut past the last index
MaxOut == 1

(***************************************************************************)
(* 1. Data: the catalog and the demo cart.                                 *)
(***************************************************************************)
Product(i, p, o) == [id |-> i, price |-> p, oldPrice |-> o]

\* the twenty records of allProducts, in source order (ids 1, 14, 15 repeat)
catalogRecords ==
    << Product(1, 89344, 268598),   Product(2, 32666, 56559),
       Product(3, 42052, 79541),    Product(4, 5934, 17323),
       Product(5, 10812, 17236),    Product(6, 67890, 98765),
       Product(10, 159900, 299900), Product(14, 95000, 150000),
       Product(11, 210500, 350000), Product(12, 180000, 250000),
       Product(13, 75000, 120000),  Product(14, 95000, 150000),
       Product(15, 120000, 200000), Product(16, 60000, 100000),
       Product(14, 95000, 150000),  Product(17, 85000, 140000),
       Product(18, 350000, 500000), Product(15, 120000, 200000),
       Product(19, 280000, 450000), Product(1, 89344, 268598) >>

\* the catalog ids the exploration keeps
ModelIds == { i \in 14..(13 + MaxIds) :
                \E k \in DOMAIN catalogRecords : catalogRecords[k].id = i }

KeepRecord(p) == p.id \in ModelIds

\* allProducts restricted to the explored ids: source order and every
\* duplicate record of those ids are kept (for MaxIds = 2: 14, 14, 15, 14, 15)
allProducts == SelectSeq(catalogRecords, KeepRecord)

\* a line item; item.quantity of the source is the number `quantity` when
\* kind is "integer", quantity + 1/2 when kind is "half", and NaN (with
\* quantity 0) when kind is "NaN"
Item(p, q) == [id |-> p.id, price |-> p.price, oldPrice |-> p.oldPrice,
               quantity |-> q, kind |-> "integer"]

initialCartItems ==
    << Item(Product(7, 5108, 11544), 1),
       Item(Product(8, 4016, 50406), 1),
       Item(Product(9, 10895, 15497), 1) >>

(***************************************************************************)
(* 2. Array helpers with the semantics of the JavaScript built-ins.        *)
(***************************************************************************)
Range(s) == { s[k] : k \in DOMAIN s }

Max(a, b) == IF a >= b THEN a ELSE b
Min(a, b) == IF a <= b THEN a ELSE b

\* Array.prototype.find on a list of records with an id: the 1-based
\* position of the first record with that id, 0 when there is none
FindById(s, i) ==
    IF \E k \in DOMAIN s : s[k].id = i
    THEN CHOOSE k \in DOMAIN s :
            s[k].id = i /\ \A j \in 1..(k - 1) : s[j].id # i
    ELSE 0

\* Array.prototype.indexOf: 0-based position of the first v, -1 when absent
IndexOf(s, v) ==
    IF \E k \in DOMAIN s : s[k] = v
    THEN (CHOOSE k \in DOMAIN s :
            s[k] = v /\ \A j \in 1..(k - 1) : s[j] # v) - 1
    ELSE -1

\* s.splice(start, 1): a negative start counts from the end, the start is
\* clamped to 0..length, and at most one element is deleted
SpliceOne(s, start) ==
    LET len  == Len(s)
        from == IF start < 0 THEN Max(len + start, 0) ELSE Min(start, len)
        cnt  == Min(1, len - from)
    IN  [k \in 1..(len - cnt) |-> IF k <= from THEN s[k] ELSE s[k + cnt]]

\* s.filter(i => i !== v)
FilterNot(s, v) == LET keep(x) == x # v IN SelectSeq(s, keep)

\* s.map((_, i) => i)
IndexList(s) == [k \in 1..Len(s) |-> k - 1]


(***************************************************************************)
(* 2a. JavaScript values, where the source lets them be other than an      *)
(* integer: the change passed to changeQty, item.quantity and the sums     *)
(* computed from it.  A number is an integer, a half-integer or NaN:       *)
(* [type |-> "number", twice |-> 2 * value, nan |-> FALSE], or NaN with    *)
(* nan |-> TRUE.  A value of another type carries its typeof only.         *)
(***************************************************************************)
Number(twice) == [type |-> "number", twice |-> twice, nan |-> FALSE]

NaN == [type |-> "number", twice |-> 0, nan |-> TRUE]

Integer(n) == Number(2 * n)

\* a value that is not a number, such as the string "1"
Text == [type |-> "string", twice |-> 0, nan |-> FALSE]

\* x + y on numbers
Plus(x, y) == IF x.nan \/ y.nan THEN NaN ELSE Number(x.twice + y.twice)

\* n * x for an integer n
Times(n, x) == IF x.nan THEN NaN ELSE Number(n * x.twice)

\* x < n and x > n for an integer n: false when x is NaN
LessThan(x, n) == ~ x.nan /\ x.twice < 2 * n
GreaterThan(x, n) == ~ x.nan /\ x.twice > 2 * n

\* the integer part and the kind under which a number is stored
Whole(x) == IF x.nan THEN 0 ELSE x.twice \div 2
Kind(x) ==
    IF x.nan THEN "NaN" ELSE IF x.twice % 2 = 0 THEN "integer" ELSE "half"

\* item.quantity read and written
QuantityOf(item) ==
    IF item.kind = "NaN" THEN NaN
    ELSE Number(2 * item.quantity + (IF item.kind = "half" THEN 1 ELSE 0))

WithQuantity(item, x) == [item EXCEPT !.quantity = Whole(x), !.kind = Kind(x)]


(***************************************************************************)
(* 3. State.                                                               *)
(***************************************************************************)
VARIABLES
    cart,           \* let cart: the line items, in display order
    selectedItems,  \* let selectedItems: the selected cart indices (0-based)
    totals,         \* what updateTotals last wrote to the checkout bar
    notified,       \* what the last call passed to showNotification
    lastCall,       \* the last call: <<name, arguments...>>
    again,          \* the last call repeats the call before it
    pre             \* cart and selectedItems as they were before the last call

\* the floating cart and the two views (toggleView, initDraggableCart)
VARIABLES
    isDragging,     \* let isDragging
    hasMoved,       \* let hasMoved
    offsetX,        \* let offsetX: pointer minus rect.left at the last dragStart
    offsetY,        \* let offsetY: pointer minus rect.top at the last dragStart
    floatingCart,   \* the handle: [left, top, offsetWidth, offsetHeight]
    viewport,       \* window: [innerWidth, innerHeight]
    cartViewDisplay,\* cartView.style.display: "", "none" or "block"
    gesture         \* what the last pointer event did, and the press so far

\* the notification elements and their timers (showNotification)
VARIABLES
    notifications,  \* the .notification elements in the document, in order
    timers,         \* the pending setTimeout callbacks
    created,        \* how many notification elements were created so far
    timerLog        \* the last showNotification call or timer callback

cartVars == <<cart, selectedItems, totals, notified, lastCall, again, pre>>

gestureVars == <<isDragging, hasMoved, offsetX, offsetY, floatingCart,
                 viewport, cartViewDisplay, gesture>>

notificationVars == <<notifications, timers, created, timerLog>>

vars == <<cartVars, gestureVars, notificationVars>>

SelectionSet == Range(selectedItems)

CartIds(c) == { c[k].id : k \in DOMAIN c }

(***************************************************************************)
(* 4. Totals (updateTotals).                                               *)
(***************************************************************************)
\* cart[index] is an object exactly for the in-range indices; any other
\* index reads undefined, which `if (item)` skips
ItemExists(c, index) == index >= 0 /\ index < Len(c)

\* selectedItems.forEach(index => { if (item) { total += price * quantity;
\* oldTotal += oldPrice * quantity } }), from position k on
RECURSIVE SumSelected(_, _, _, _)
SumSelected(c, sel, k, acc) ==
    IF k > Len(sel) THEN acc
    ELSE LET index == sel[k]
         IN  IF ItemExists(c, index)
             THEN LET item == c[index + 1]
                  IN  SumSelected(c, sel, k + 1,
                        [total    |-> Plus(acc.total,
                                           Times(item.price, QuantityOf(item))),
                         oldTotal |-> Plus(acc.oldTotal,
                                           Times(item.oldPrice,
                                                 QuantityOf(item)))])
             ELSE SumSelected(c, sel, k + 1, acc)

\* the quotient cut after the first decimal instead of rounded
TruncatedTenths(a, o) ==
    LET d1 == (10 * a) \div o
        r1 == (10 * a) % o
        d2 == (10 * r1) \div o
        r2 == (10 * r1) % o
        d3 == (10 * r2) \div o
    IN  100 * d1 + 10 * d2 + d3

\* ((1 - total / oldTotal) * 100).toFixed(1), in tenths of a percent: the
\* nearest tenth of 100 * (oldTotal - total) / oldTotal.  The quotient is
\* taken digit by digit so that no intermediate product leaves TLC's 32-bit
\* integers.  At an exact tie (a value of the form x.x5) the larger
\* magnitude is taken; in the source the rounding error of the double
\* division decides a tie, and no tie occurs for the prices and quantities
\* explored here.
RoundedTenths(a, o) ==
    LET d1 == (10 * a) \div o
        r1 == (10 * a) % o
        d2 == (10 * r1) \div o
        r2 == (10 * r1) % o
        d3 == (10 * r2) \div o
        r3 == (10 * r2) % o
    IN  100 * d1 + 10 * d2 + d3 + (IF 2 * r3 >= o THEN 1 ELSE 0)

ToFixed1(total, oldTotal) ==
    IF oldTotal >= total
    THEN RoundedTenths(oldTotal - total, oldTotal)
    ELSE 0 - RoundedTenths(total - oldTotal, oldTotal)

\* oldTotal > 0 ? (...).toFixed(1) : 0, on the two sums as numbers; the
\* quotient total / oldTotal is that of the doubled values.  oldTotal > 0 is
\* false for NaN, and total is NaN only when oldTotal is: both sums
\* multiply by the same quantities.
Discount(total, oldTotal) ==
    IF GreaterThan(oldTotal, 0) THEN ToFixed1(total.twice, oldTotal.twice)
    ELSE 0

\* what updateTotals writes: the two sums (integer part and kind), the
\* discount and selectedItems.length
Written(sums, sel) ==
    [total    |-> Whole(sums.total),
     oldTotal |-> Whole(sums.oldTotal),
     discount |-> Discount(sums.total, sums.oldTotal),
     count    |-> Len(sel),
     kinds    |-> <<Kind(sums.total), Kind(sums.oldTotal)>>]

\* the sums taken over every item of the cart, selected or not
updateTotalsOfAll(c, sel) ==
    Written(SumSelected(c, IndexList(c), 1,
                        [total |-> Integer(0), oldTotal |-> Integer(0)]),
            sel)

updateTotals(c, sel) ==
    Written(SumSelected(c, sel, 1,
                        [total |-> Integer(0), oldTotal |-> Integer(0)]),
            sel)

(***************************************************************************)
(* 5. Cart operations, as functions of the state they read.                *)
(***************************************************************************)
\* {...product, quantity: 1, variant: 'Estándar'}
NewItem(product) == Item(product, 1)

\* addToCart without the lookup in the cart: it always appends
addToCartCartAppend(c, productId) ==
    LET p == FindById(allProducts, productId)
    IN  IF p = 0 THEN c ELSE Append(c, NewItem(allProducts[p]))

\* addToCart: the cart after the call
addToCartCart(c, productId) ==
    LET p == FindById(allProducts, productId)
        e == FindById(c, productId)
    IN  IF p = 0 THEN c
        ELSE IF e # 0
             THEN [c EXCEPT ![e] = WithQuantity(@, Plus(QuantityOf(@),
                                                        Integer(1)))]
        ELSE Append(c, NewItem(allProducts[p]))

\* the iteration without the lookup in the cart
AddAlways(c, product) == Append(c, NewItem(product))

\* addAllToCart: one iteration of allProducts.forEach
AddIfAbsent(c, product) ==
    IF FindById(c, product.id) = 0 THEN Append(c, NewItem(product)) ELSE c

RECURSIVE AddAllFrom(_, _)
AddAllFrom(c, k) ==
    IF k > Len(allProducts) THEN c
    ELSE AddAllFrom(AddIfAbsent(c, allProducts[k]), k + 1)

\* every catalog record whose id the cart lacked before the call is appended:
\* the lookup reads the cart as it was, not as the loop has grown it
addAllToCartCartStale(c) ==
    LET missing == SelectSeq(allProducts, LAMBDA p : FindById(c, p.id) = 0)
    IN  c \o [k \in 1..Len(missing) |-> NewItem(missing[k])]

addAllToCartCart(c) == AddAllFrom(c, 1)

\* toggleSelectAll deciding on "anything selected" instead of "all selected"
toggleSelectAllSelAny(c, sel) ==
    IF Len(sel) > 0 THEN << >> ELSE IndexList(c)

\* toggleSelectAll: the selection after the call
toggleSelectAllSel(c, sel) ==
    IF Len(sel) = Len(c) THEN << >> ELSE IndexList(c)

\* toggleItem: the selection after the call
toggleItemSel(sel, index) ==
    LET pos == IndexOf(sel, index)
    IN  IF pos > -1 THEN SpliceOne(sel, pos) ELSE Append(sel, index)

\* removeItem: cart.splice(index, 1)
removeItemCart(c, index) == SpliceOne(c, index)

\* the map step without the re-indexing: i => i
ShiftDownNever(i, index) == i

\* removeItem: the map step, i => i > index ? i - 1 : i
ShiftDown(i, index) == IF i > index THEN i - 1 ELSE i

\* removeItem without the filter step: the removed index stays selected
removeItemSelNoFilter(sel, index) ==
    [k \in 1..Len(sel) |-> ShiftDown(sel[k], index)]

\* removeItem: selectedItems.filter(i => i !== index).map(...)
removeItemSel(sel, index) ==
    LET kept == FilterNot(sel, index)
    IN  [k \in 1..Len(kept) |-> ShiftDown(kept[k], index)]

\* changeQty: the index check of the input validation
ValidIndex(c, index) == ~ (index < 0 \/ index >= Len(c))

\* changeQty: the check of change, typeof change !== 'number'
ValidChange(change) == ~ (change.type # "number")

\* parseInt(item.quantity, 10): the number is written in decimal and the
\* integer in front of the decimal point is read back, so 1.5 reads 1 and
\* 0.5 reads 0; NaN is written "NaN" and reads NaN
ParseInt(x) ==
    IF x.nan THEN NaN
    ELSE IF x.twice >= 0 THEN Integer(x.twice \div 2)
    ELSE Integer(0 - ((0 - x.twice) \div 2))

\* parseInt(item.quantity, 10) || 1: NaN and 0 are falsy
CurrentQuantity(x) ==
    IF ParseInt(x).nan \/ ParseInt(x).twice = 0 THEN Integer(1)
    ELSE ParseInt(x)

\* const newQuantity = currentQuantity + change
NewQuantity(item, change) == Plus(CurrentQuantity(QuantityOf(item)), change)

\* the test off by one: a new quantity of 0 is kept
RemovesItemBelowZero(newQuantity) == LessThan(newQuantity, 0)

\* changeQty: newQuantity < 1 sends the call to removeItem
RemovesItem(newQuantity) == LessThan(newQuantity, 1)

\* changeQty(index, change) for an integer index and any value of change:
\* the cart after the call
changeQtyCart(c, index, change) ==
    IF ~ ValidIndex(c, index) \/ ~ ValidChange(change) THEN c
    ELSE LET newQuantity == NewQuantity(c[index + 1], change)
         IN  IF RemovesItem(newQuantity)
             THEN removeItemCart(c, index)
             ELSE [c EXCEPT ![index + 1] = WithQuantity(@, newQuantity)]

\* changeQty removing the item by cart.splice alone, selectedItems untouched
changeQtySelKept(c, sel, index, change) == sel

\* changeQty re-indexing the selection on every valid call, item kept or not
changeQtySelAlways(c, sel, index, change) ==
    IF ~ ValidIndex(c, index) \/ ~ ValidChange(change) THEN sel
    ELSE removeItemSel(sel, index)

\* changeQty: the selection after the call
changeQtySel(c, sel, index, change) ==
    IF ~ ValidIndex(c, index) \/ ~ ValidChange(change) THEN sel
    ELSE IF RemovesItem(NewQuantity(c[index + 1], change))
         THEN removeItemSel(sel, index)
         ELSE sel

\* checkout: total += item.price * item.quantity over selectedItems.map
RECURSIVE CheckoutTotal(_, _, _)
CheckoutTotal(c, sel, k) ==
    IF k > Len(sel) THEN Integer(0)
    ELSE Plus(Times(c[sel[k] + 1].price, QuantityOf(c[sel[k] + 1])),
              CheckoutTotal(c, sel, k + 1))

\* the message of a processed order: the total (integer part and kind)
Processed(total) == <<"processed", Whole(total), Kind(total)>>

\* the guard "if (selectedItems.length === 0)" left out
checkoutNoticeUnguarded(c, sel) == Processed(CheckoutTotal(c, sel, 1))

\* checkout: what reaches showNotification; reading .price of an undefined
\* item throws a TypeError before any notification
checkoutNotice(c, sel) ==
    IF Len(sel) = 0 THEN <<"emptySelection">>
    ELSE IF \E k \in DOMAIN sel : ~ ItemExists(c, sel[k])
         THEN <<"TypeError">>
         ELSE Processed(CheckoutTotal(c, sel, 1))


(***************************************************************************)
(* 5a. The floating cart (initDraggableCart) and the views (toggleView).   *)
(* The pointer events of mouse and touch run the same three handlers; an   *)
(* event is modelled by the handler it runs and its clientX, clientY.      *)
(* The handle is positioned by left and top once dragMove has set them;    *)
(* getBoundingClientRect is taken to report that position.                 *)
(***************************************************************************)
\* viewport and handle sizes are explored in 0..MaxSize
MaxSize == 1

Sizes == 0..MaxSize

\* pointer coordinates, one step past the largest viewport on either side
Coordinates == (0 - 1)..(MaxSize + 1)

\* toggleView: cartView.style.display after the call; isCartVisible is
\* cartView.style.display !== 'none'
toggleViewDisplay(display) == IF display # "none" THEN "none" ELSE "block"

\* the lower limit 0 left out
ClampUpperOnly(v, viewportSize, elemSize) == Min(v, viewportSize - elemSize)

\* dragMove: Math.max(0, Math.min(newX, viewportWidth - elemWidth))
Clamp(v, viewportSize, elemSize) ==
    Max(0, Min(v, viewportSize - elemSize))

\* dragMove that forgets to record the movement
dragMoveHasMovedKept(dragging, moved) == moved

\* dragMove: hasMoved after the call
dragMoveHasMoved(dragging, moved) == IF dragging THEN TRUE ELSE moved

\* dragEnd toggling the view on every click, open or closed
dragEndTogglesOnClick(moved, display) == ~ moved

\* dragEnd: toggleView is called when nothing moved and the cart view is not
\* visible
dragEndOpens(moved, display) == ~ moved /\ ~ (display # "none")

\* the history of the press, after a pointer-up
PhaseAfterUp(phase) ==
    CASE phase = "down"  -> "click"
      [] phase = "moved" -> "dragged"
      [] OTHER           -> "other"

\* let isDragging = false; let hasMoved = false; let offsetX, offsetY; the
\* offsets are undefined until the first dragStart writes them, and dragMove
\* reads them only after a dragStart: they start at 0 here
GestureInit(width, height, innerWidth, innerHeight, display) ==
    /\ isDragging = FALSE
    /\ hasMoved = FALSE
    /\ offsetX = 0
    /\ offsetY = 0
    /\ floatingCart = [left |-> Max(0, innerWidth - width),
                       top |-> Max(0, innerHeight - height),
                       offsetWidth |-> width, offsetHeight |-> height]
    /\ viewport = [innerWidth |-> innerWidth, innerHeight |-> innerHeight]
    /\ cartViewDisplay = display
    /\ gesture = [event |-> "init", clientX |-> 0, clientY |-> 0,
                  wasDragging |-> FALSE, emitted |-> {},
                  displayBefore |-> display, phase |-> "idle",
                  downDisplay |-> display,
                  downLeft |-> Max(0, innerWidth - width),
                  downTop |-> Max(0, innerHeight - height),
                  repositioned |-> FALSE,
                  lastLeft |-> Max(0, innerWidth - width),
                  lastTop |-> Max(0, innerHeight - height)]

\* dragStart(e): mousedown or touchstart on the handle, so the pointer is
\* within the handle's box
DragStart(clientX, clientY) ==
    /\ clientX \in floatingCart.left..(floatingCart.left
                                            + floatingCart.offsetWidth)
    /\ clientY \in floatingCart.top..(floatingCart.top
                                            + floatingCart.offsetHeight)
    /\ isDragging' = TRUE
    /\ hasMoved' = FALSE
    /\ offsetX' = clientX - floatingCart.left
    /\ offsetY' = clientY - floatingCart.top
    /\ gesture' = [gesture EXCEPT
                      !.event = "down", !.clientX = clientX,
                      !.clientY = clientY, !.wasDragging = isDragging,
                      !.emitted = {}, !.displayBefore = cartViewDisplay,
                      !.phase = "down", !.downDisplay = cartViewDisplay,
                      !.downLeft = floatingCart.left,
                      !.downTop = floatingCart.top,
                      !.repositioned = FALSE]
    /\ UNCHANGED <<floatingCart, viewport, cartViewDisplay>>
    /\ UNCHANGED <<cartVars, notificationVars>>

\* dragMove(e): mousemove or touchmove anywhere in the document
DragMove(clientX, clientY) ==
    LET newX == Clamp(clientX - offsetX, viewport.innerWidth,
                      floatingCart.offsetWidth)
        newY == Clamp(clientY - offsetY, viewport.innerHeight,
                      floatingCart.offsetHeight)
    IN  /\ hasMoved' = dragMoveHasMoved(isDragging, hasMoved)
        /\ floatingCart' = IF isDragging
                           THEN [floatingCart EXCEPT !.left = newX,
                                                     !.top = newY]
                           ELSE floatingCart
        /\ gesture' = [gesture EXCEPT
                          !.event = "move", !.clientX = clientX,
                          !.clientY = clientY, !.wasDragging = isDragging,
                          !.emitted = IF isDragging THEN {"reposition"}
                                      ELSE {},
                          !.displayBefore = cartViewDisplay,
                          !.phase = IF @ \in {"down", "moved"} THEN "moved"
                                    ELSE "other",
                          !.repositioned = isDragging \/ @,
                          !.lastLeft = IF isDragging THEN newX ELSE @,
                          !.lastTop = IF isDragging THEN newY ELSE @]
        /\ UNCHANGED <<isDragging, offsetX, offsetY, viewport,
                       cartViewDisplay>>
        /\ UNCHANGED <<cartVars, notificationVars>>

\* dragEnd(): mouseup or touchend anywhere in the document; toggleView
\* showing the cart view ends with renderCartItems
DragEnd ==
    LET opens == dragEndOpens(hasMoved, cartViewDisplay)
    IN  /\ isDragging' = FALSE
        /\ cartViewDisplay' = IF opens
                              THEN toggleViewDisplay(cartViewDisplay)
                              ELSE cartViewDisplay
        /\ totals' = IF opens /\ cartViewDisplay' # "none"
                     THEN updateTotals(cart, selectedItems)
                     ELSE totals
        /\ gesture' = [gesture EXCEPT
                          !.event = "up", !.wasDragging = isDragging,
                          !.emitted = IF opens THEN {"openCartView"}
                                      ELSE {},
                          !.displayBefore = cartViewDisplay,
                          !.phase = PhaseAfterUp(@)]
        /\ UNCHANGED <<hasMoved, offsetX, offsetY, floatingCart, viewport>>
        /\ UNCHANGED <<cart, selectedItems, notified, lastCall, again, pre>>
        /\ UNCHANGED notificationVars

\* toggleView(), as the page's buttons call it (window.toggleView)
ToggleView ==
    /\ cartViewDisplay' = toggleViewDisplay(cartViewDisplay)
    /\ totals' = IF cartViewDisplay' # "none"
                 THEN updateTotals(cart, selectedItems)
                 ELSE totals
    /\ gesture' = [gesture EXCEPT
                      !.event = "toggleView", !.wasDragging = isDragging,
                      !.emitted = {}, !.displayBefore = cartViewDisplay,
                      !.phase = "other"]
    /\ UNCHANGED <<isDragging, hasMoved, offsetX, offsetY, floatingCart,
                   viewport>>
    /\ UNCHANGED <<cart, selectedItems, notified, lastCall, again, pre>>
    /\ UNCHANGED notificationVars


(***************************************************************************)
(* 5b. Notifications (showNotification).  An element is known by the       *)
(* number of its creation; each call schedules one callback, which         *)
(* schedules the callback that removes the call's own element.  A pending  *)
(* callback may run at any later step: the delays order them only in part. *)
(***************************************************************************)
\* showNotification is explored for MaxNotifications calls
MaxNotifications == 3

\* the texts the cart operations pass to showNotification
Messages == {"added", "allAdded", "emptySelection", "processed"}

Notification(n, message) == [id |-> n, message |-> message, animation |-> ""]

\* Element.remove() of one element: nothing happens when it is not attached
RemoveElement(dom, n) == SelectSeq(dom, LAMBDA e : e.id # n)

\* the new element appended without removing the one on display
showNotificationAppendOnly(dom, el) == Append(dom, el)

\* showNotification: document.querySelector('.notification') is the first
\* such element; it is removed and the new element is appended to the body
showNotificationDom(dom, el) ==
    Append(IF dom = << >> THEN dom ELSE RemoveElement(dom, dom[1].id), el)

\* the outer callback: notification.style.animation = 'slideUp ...' on the
\* call's own element
fadeDom(dom, n) ==
    [k \in DOMAIN dom |->
        IF dom[k].id = n THEN [dom[k] EXCEPT !.animation = "slideUp"]
        ELSE dom[k]]

NotificationInit ==
    /\ notifications = << >>
    /\ timers = {}
    /\ created = 0
    /\ timerLog = [event |-> "init", id |-> 0, before |-> << >>]

\* showNotification(message)
ShowNotification(message) ==
    /\ created < MaxNotifications
    /\ created' = created + 1
    /\ notifications' = showNotificationDom(notifications,
                                            Notification(created', message))
    /\ timers' = timers \cup {[id |-> created', stage |-> "fade"]}
    /\ timerLog' = [event |-> "show", id |-> created',
                    before |-> notifications]
    /\ UNCHANGED <<cartVars, gestureVars>>

\* the callback of setTimeout(..., 2000) for element n
TimerFade(n) ==
    /\ [id |-> n, stage |-> "fade"] \in timers
    /\ notifications' = fadeDom(notifications, n)
    /\ timers' = (timers \ {[id |-> n, stage |-> "fade"]})
                    \cup {[id |-> n, stage |-> "remove"]}
    /\ timerLog' = [event |-> "fade", id |-> n, before |-> notifications]
    /\ UNCHANGED created
    /\ UNCHANGED <<cartVars, gestureVars>>

\* the callback of setTimeout(() => notification.remove(), 300) for element n
TimerRemove(n) ==
    /\ [id |-> n, stage |-> "remove"] \in timers
    /\ notifications' = RemoveElement(notifications, n)
    /\ timers' = timers \ {[id |-> n, stage |-> "remove"]}
    /\ timerLog' = [event |-> "remove", id |-> n, before |-> notifications]
    /\ UNCHANGED created
    /\ UNCHANGED <<cartVars, gestureVars>>


(***************************************************************************)
(* 6. The calls, as actions.  renderCartItems ends with updateTotals, so   *)
(* every call that reaches its render also rewrites the displayed totals.  *)
(***************************************************************************)
Snapshot == [cart |-> cart, selectedItems |-> selectedItems]

CartInit ==
    /\ cart = initialCartItems
    /\ selectedItems = IndexList(initialCartItems)
    /\ totals = updateTotals(initialCartItems, IndexList(initialCartItems))
    /\ notified = <<"none">>
    /\ lastCall = <<"init">>
    /\ again = FALSE
    /\ pre = [cart |-> initialCartItems,
              selectedItems |-> IndexList(initialCartItems)]

\* the page after DOMContentLoaded.  The sizes of the window and of the
\* handle and the inline display of the cart view come from the browser and
\* the page's markup; the cart operations read none of them, and this
\* initial state takes a handle of size 1 in a window of size MaxSize with
\* the cart view hidden.
Init ==
    /\ CartInit
    /\ GestureInit(1, 1, MaxSize, MaxSize, "none")
    /\ NotificationInit

\* addToCart(productId), for a productId of type number; the call returns
\* before any render or notification when no catalog record has the id
AddToCart(productId) ==
    LET found == FindById(allProducts, productId) # 0
        e     == FindById(cart, productId)
    IN  /\ (found /\ e # 0) => cart[e].quantity < MaxQty
        /\ cart' = addToCartCart(cart, productId)
        /\ selectedItems' = selectedItems
        /\ totals' = IF found THEN updateTotals(cart', selectedItems')
                     ELSE totals
        /\ notified' = IF found THEN <<"added">> ELSE <<"none">>
        /\ lastCall' = <<"addToCart", productId>>
        /\ again' = (lastCall = <<"addToCart", productId>>)
        /\ pre' = Snapshot
    /\ UNCHANGED <<gestureVars, notificationVars>>

\* addAllToCart()
AddAllToCart ==
    /\ cart' = addAllToCartCart(cart)
    /\ selectedItems' = selectedItems
    /\ totals' = updateTotals(cart', selectedItems')
    /\ notified' = <<"allAdded">>
    /\ lastCall' = <<"addAllToCart">>
    /\ again' = (lastCall = <<"addAllToCart">>)
    /\ pre' = Snapshot
    /\ UNCHANGED <<gestureVars, notificationVars>>

\* toggleSelectAll()
ToggleSelectAll ==
    /\ selectedItems' = toggleSelectAllSel(cart, selectedItems)
    /\ cart' = cart
    /\ totals' = updateTotals(cart', selectedItems')
    /\ notified' = <<"none">>
    /\ lastCall' = <<"toggleSelectAll">>
    /\ again' = (lastCall = <<"toggleSelectAll">>)
    /\ pre' = Snapshot
    /\ UNCHANGED <<gestureVars, notificationVars>>

\* toggleItem(index)
ToggleItem(index) ==
    /\ selectedItems' = toggleItemSel(selectedItems, index)
    /\ cart' = cart
    /\ totals' = updateTotals(cart', selectedItems')
    /\ notified' = <<"none">>
    /\ lastCall' = <<"toggleItem", index>>
    /\ again' = (lastCall = <<"toggleItem", index>>)
    /\ pre' = Snapshot
    /\ UNCHANGED <<gestureVars, notificationVars>>

\* changeQty(index, change), the call to removeItem included; call is the
\* record of the call kept in lastCall
ChangeQtyCall(index, change, call) ==
    /\ ValidIndex(cart, index) =>
          ~ GreaterThan(NewQuantity(cart[index + 1], change), MaxQty)
    /\ cart' = changeQtyCart(cart, index, change)
    /\ selectedItems' = changeQtySel(cart, selectedItems, index, change)
    /\ totals' = IF ValidIndex(cart, index) /\ ValidChange(change)
                 THEN updateTotals(cart', selectedItems')
                 ELSE totals
    /\ notified' = <<"none">>
    /\ lastCall' = call
    /\ again' = (lastCall = call)
    /\ pre' = Snapshot
    /\ UNCHANGED <<gestureVars, notificationVars>>

\* changeQty(index, change) with an integer change
ChangeQty(index, change) ==
    ChangeQtyCall(index, Integer(change), <<"changeQty", index, change>>)

\* changeQty(index, change) with a change that is not an integer: a
\* half-integer, NaN or a value that is not a number; lastCall keeps the
\* integer part of the change and what it is
ChangeQtyWith(index, change) ==
    ChangeQtyCall(index, change,
                  <<"changeQty", index, Whole(change),
                    IF ValidChange(change) THEN Kind(change)
                    ELSE change.type>>)

\* removeItem(index)
RemoveItem(index) ==
    /\ cart' = removeItemCart(cart, index)
    /\ selectedItems' = removeItemSel(selectedItems, index)
    /\ totals' = updateTotals(cart', selectedItems')
    /\ notified' = <<"none">>
    /\ lastCall' = <<"removeItem", index>>
    /\ again' = (lastCall = <<"removeItem", index>>)
    /\ pre' = Snapshot
    /\ UNCHANGED <<gestureVars, notificationVars>>

\* checkout()
Checkout ==
    /\ notified' = checkoutNotice(cart, selectedItems)
    /\ UNCHANGED <<cart, selectedItems, totals>>
    /\ lastCall' = <<"checkout">>
    /\ again' = (lastCall = <<"checkout">>)
    /\ pre' = Snapshot
    /\ UNCHANGED <<gestureVars, notificationVars>>

(***************************************************************************)
(* 7. Specifications.                                                      *)
(***************************************************************************)
\* the ids the product cards pass: onclick = () => addToCart(product.id)
RenderedIds == { allProducts[k].id : k \in DOMAIN allProducts }

\* the indices the rendered cart rows pass: cart.forEach((item, index) => ...)
RenderedIndices == 0..(Len(cart) - 1)

Deltas == (0 - MaxDelta)..MaxDelta

\* the calls as the rendered page makes them, with any integer change
Next ==
    \/ \E productId \in RenderedIds : AddToCart(productId)
    \/ AddAllToCart
    \/ ToggleSelectAll
    \/ \E index \in RenderedIndices : ToggleItem(index)
    \/ \E index \in RenderedIndices, change \in Deltas : ChangeQty(index, change)
    \/ \E index \in RenderedIndices : RemoveItem(index)
    \/ Checkout

Spec == Init /\ [][Next]_vars


\* any integer index, in range or up to MaxOut out of range on either side
AnyIndices == (0 - MaxOut)..(Len(cart) - 1 + MaxOut)

\* the calls that take an index, with arguments the rendered page would not
\* pass, on the demo cart (no product is added)
NextAny ==
    \/ ToggleSelectAll
    \/ \E index \in AnyIndices : ToggleItem(index)
    \/ \E index \in AnyIndices, change \in Deltas : ChangeQty(index, change)
    \/ \E index \in AnyIndices : RemoveItem(index)
    \/ Checkout

SpecAny == Init /\ [][NextAny]_vars


\* changes that are not integers: the half-integers between -MaxDelta and
\* MaxDelta, NaN, and a value that is not a number
OtherChanges ==
    { Number(t) : t \in { u \in (0 - 2 * MaxDelta)..(2 * MaxDelta) :
                            u % 2 = 1 } }
        \cup {NaN, Text}

\* changeQty called with any index and any change, among the calls of the
\* rendered cart rows, on the demo cart (no product is added)
NextDelta ==
    \/ ToggleSelectAll
    \/ \E index \in RenderedIndices : ToggleItem(index)
    \/ \E index \in AnyIndices, change \in Deltas : ChangeQty(index, change)
    \/ \E index \in AnyIndices, change \in OtherChanges :
          ChangeQtyWith(index, change)
    \/ \E index \in RenderedIndices : RemoveItem(index)
    \/ Checkout

SpecDelta == Init /\ [][NextDelta]_vars


\* any sizes of the handle and of the window; the cart view starts without
\* an inline display or hidden
InitGesture ==
    /\ CartInit
    /\ \E width \in Sizes, height \in Sizes,
          innerWidth \in Sizes, innerHeight \in Sizes,
          display \in {"", "none"} :
            GestureInit(width, height, innerWidth, innerHeight, display)
    /\ NotificationInit

\* the pointer events on the handle and the document, and toggleView
NextGesture ==
    \/ \E clientX \in Coordinates, clientY \in Coordinates :
          DragStart(clientX, clientY)
    \/ \E clientX \in Coordinates, clientY \in Coordinates :
          DragMove(clientX, clientY)
    \/ DragEnd
    \/ ToggleView

SpecGesture == InitGesture /\ [][NextGesture]_vars


\* showNotification calls and the callbacks of their timers, in any order
NextNotification ==
    \/ \E message \in Messages : ShowNotification(message)
    \/ \E n \in 1..MaxNotifications : TimerFade(n)
    \/ \E n \in 1..MaxNotifications : TimerRemove(n)

SpecNotification == Init /\ [][NextNotification]_vars


(***************************************************************************)
(* 8. Properties.                                                          *)
(***************************************************************************)
InRange(c, index) == index \in 0..(Len(c) - 1)

NoDuplicates(s) == \A j, k \in DOMAIN s : j # k => s[j] # s[k]

\* C1: with the indices the rendered rows pass, every element of the
\* Selection Set is an index of the Cart and no index is listed twice.
C1_SelectionWithinCart ==
    /\ \A k \in DOMAIN selectedItems : InRange(cart, selectedItems[k])
    /\ NoDuplicates(selectedItems)

\* a removal below two selected items has just re-indexed them
C1_Witness ==
    /\ lastCall = <<"removeItem", 0>>
    /\ pre.selectedItems = <<0, 1, 2>>
    /\ selectedItems = <<0, 1>>
    /\ Len(cart) = 2

\* C2: removeItem(i) with a valid i deletes exactly the item at i, keeps the
\* order of the others, and leaves selected exactly the old selected indices
\* below i together with the old selected indices above i, each less one.
C2_RemoveItemExact ==
    (lastCall[1] = "removeItem" /\ InRange(pre.cart, lastCall[2])) =>
        LET i  == lastCall[2]
            c0 == pre.cart
            s0 == Range(pre.selectedItems)
        IN  /\ Len(cart) = Len(c0) - 1
            /\ \A k \in 1..Len(cart) :
                  cart[k] = IF k <= i THEN c0[k] ELSE c0[k + 1]
            /\ SelectionSet = { j \in s0 : j < i } \cup { j - 1 : j \in { x \in s0 : x > i } }

\* the middle item, selected, was removed between two selected items
C2_Witness ==
    /\ lastCall = <<"removeItem", 1>>
    /\ Range(pre.selectedItems) = {0, 1, 2}
    /\ Len(pre.cart) = 3
    /\ SelectionSet = {0, 1}
    /\ cart = <<pre.cart[1], pre.cart[3]>>

\* C3: changeQty(i, delta) with a valid i and quantity + delta < 1 leaves the
\* Cart and the Selection Set as removeItem(i) leaves them.
C3_ChangeQtyBelowOneIsRemove ==
    (/\ lastCall[1] = "changeQty"
     /\ InRange(pre.cart, lastCall[2])
     /\ pre.cart[lastCall[2] + 1].quantity + lastCall[3] < 1) =>
        /\ cart = removeItemCart(pre.cart, lastCall[2])
        /\ selectedItems = removeItemSel(pre.selectedItems, lastCall[2])
        /\ totals = updateTotals(cart, selectedItems)

\* a change of -2 on a selected item of quantity 1, with a selected item
\* after it
C3_Witness ==
    /\ lastCall[1] = "changeQty"
    /\ lastCall[3] = 0 - 2
    /\ InRange(pre.cart, lastCall[2])
    /\ pre.cart[lastCall[2] + 1].quantity = 1
    /\ lastCall[2] \in Range(pre.selectedItems)
    /\ lastCall[2] + 1 \in Range(pre.selectedItems)
    /\ Len(cart) = Len(pre.cart) - 1


\* C4 as claimed: two toggleSelectAll calls in a row restore the Selection
\* Set the first call found, whatever it was (empty, partial or full).
C4_TwiceRestoresAny ==
    [][(lastCall[1] = "toggleSelectAll" /\ lastCall'[1] = "toggleSelectAll")
          => SelectionSet' = Range(pre.selectedItems)]_vars

\* C4 amended: two toggleSelectAll calls in a row restore a Selection Set
\* that was empty or covered every Cart index; from a partial Selection Set
\* they leave it empty.
C4_TwiceRestoresEmptyOrFull ==
    [][(lastCall[1] = "toggleSelectAll" /\ lastCall'[1] = "toggleSelectAll")
          => LET orig == Range(pre.selectedItems)
                 all  == 0..(Len(cart) - 1)
             IN  SelectionSet' = IF orig = {} \/ orig = all THEN orig ELSE {}]_vars

\* the second of two toggleSelectAll calls has cleared a three-item selection
C4_Witness ==
    /\ lastCall = <<"toggleSelectAll">>
    /\ again
    /\ Len(cart) = 3
    /\ Range(pre.selectedItems) = {0, 1, 2}
    /\ selectedItems = << >>

\* C5: every item of the Cart has an integer quantity >= 1, and a changeQty
\* that would bring a quantity below 1 removes the item instead.
C5_QuantityAtLeastOne ==
    /\ \A k \in DOMAIN cart :
          /\ cart[k].kind = "integer"
          /\ cart[k].quantity \in Nat
          /\ cart[k].quantity >= 1
    /\ (/\ lastCall[1] = "changeQty"
        /\ InRange(pre.cart, lastCall[2])
        /\ pre.cart[lastCall[2] + 1].quantity + lastCall[3] < 1) =>
            /\ Len(cart) = Len(pre.cart) - 1
            /\ pre.cart[lastCall[2] + 1].id \notin CartIds(cart)

\* a change of -1 on the first item, of quantity 1, has removed it
C5_Witness ==
    /\ lastCall = <<"changeQty", 0, 0 - 1>>
    /\ pre.cart[1].quantity = 1
    /\ pre.cart[1].id = 7
    /\ 7 \notin CartIds(cart)

\* the item addToCart appends for a catalog id: a copy of the first catalog
\* record with that id, with the given quantity
FirstRecord(productId) ==
    catalogRecords[CHOOSE k \in DOMAIN catalogRecords :
        /\ catalogRecords[k].id = productId
        /\ \A j \in 1..(k - 1) : catalogRecords[j].id # productId]

\* C6, one call: on a catalog id absent from the Cart, addToCart appends one
\* item of quantity 1 at the end; on an id in the Cart it adds 1 to that
\* item's quantity and changes nothing else in the Cart.
C6_OneCall ==
    (lastCall[1] = "addToCart" /\ lastCall[2] \in RenderedIds) =>
        IF lastCall[2] \notin CartIds(pre.cart)
        THEN cart = Append(pre.cart, Item(FirstRecord(lastCall[2]), 1))
        ELSE /\ Len(cart) = Len(pre.cart)
             /\ \A k \in DOMAIN cart :
                   cart[k] = IF pre.cart[k].id = lastCall[2]
                             THEN [pre.cart[k] EXCEPT !.quantity = @ + 1]
                             ELSE pre.cart[k]

\* C6, two calls: when addToCart(id) follows addToCart(id) and the id was
\* absent before the first, the Cart is the original one with one item of
\* quantity 2 appended.
C6_TwoCalls ==
    (/\ lastCall[1] = "addToCart"
     /\ lastCall[2] \in RenderedIds
     /\ lastCall[2] \notin CartIds(pre.cart)
     /\ lastCall' = lastCall)
        => cart' = Append(pre.cart, Item(FirstRecord(lastCall[2]), 2))

\* C6: addToCart(id) twice on an absent catalog id grows the Cart by exactly
\* one item, appended at the end, of quantity 2; addToCart(id) on an id in
\* the Cart adds exactly 1 to that item's quantity and changes nothing else.
C6_AddItem == [] C6_OneCall /\ [][C6_TwoCalls]_vars

\* addToCart(14) twice on the demo cart: a fourth item of quantity 2
C6_Witness ==
    /\ lastCall = <<"addToCart", 14>>
    /\ again
    /\ Len(pre.cart) = 4
    /\ pre.cart[4].quantity = 1
    /\ cart = Append(initialCartItems, Item(FirstRecord(14), 2))

\* C7: a second addAllToCart right after a first changes neither the Cart
\* nor the Selection Set (the catalog has several records with one id), and
\* an addAllToCart leaves every item that was in the Cart as it was.
C7_AddAllIdempotent ==
    /\ [][(lastCall[1] = "addAllToCart" /\ lastCall'[1] = "addAllToCart")
            => (cart' = cart /\ selectedItems' = selectedItems)]_vars
    /\ [](lastCall[1] = "addAllToCart" =>
            /\ Len(cart) >= Len(pre.cart)
            /\ SubSeq(cart, 1, Len(pre.cart)) = pre.cart
            /\ selectedItems = pre.selectedItems)

\* the second of two addAllToCart calls, with id 14 (three catalog records)
\* once in the Cart and an older item at quantity 2
C7_Witness ==
    /\ lastCall = <<"addAllToCart">>
    /\ again
    /\ cart = pre.cart
    /\ Cardinality({ k \in DOMAIN cart : cart[k].id = 14 }) = 1
    /\ \E k \in DOMAIN cart : cart[k].quantity = 2
    /\ Len(SelectSeq(allProducts, LAMBDA p : p.id = 14)) > 1


\* sum of price * quantity (old = FALSE) or oldPrice * quantity (old = TRUE)
\* over the positions 1..k of c whose index is in S
RECURSIVE SumOver(_, _, _, _)
SumOver(c, S, k, old) ==
    IF k = 0 THEN 0
    ELSE (IF (k - 1) \in S
          THEN (IF old THEN c[k].oldPrice ELSE c[k].price) * c[k].quantity
          ELSE 0)
         + SumOver(c, S, k - 1, old)

\* C8: the totals are the sums of price * quantity and oldPrice * quantity
\* over exactly the selected Cart indices; with nothing selected the total,
\* the old total and the discount are all 0.
C8_TotalsOverSelection ==
    /\ totals.total = SumOver(cart, SelectionSet, Len(cart), FALSE)
    /\ totals.oldTotal = SumOver(cart, SelectionSet, Len(cart), TRUE)
    /\ SelectionSet = {} =>
          (totals.total = 0 /\ totals.oldTotal = 0 /\ totals.discount = 0)

\* the first item at quantity 2 and the third are selected, the second is not
C8_Witness ==
    /\ Len(cart) = 3
    /\ SelectionSet = {0, 2}
    /\ cart[1].quantity = 2
    /\ totals.total = 2 * 5108 + 10895
    /\ totals.oldTotal = 2 * 11544 + 15497

\* the cart of the scenario: the demo item 7 alone, selected
OnlyItem7 ==
    /\ cart = << Item(Product(7, 5108, 11544), 1) >>
    /\ SelectionSet = {0}

\* C9 as claimed: for that cart the totals are 5108 and 11544 and the
\* discount is 55.7 (557 tenths of a percent).
C9_Discount557 ==
    OnlyItem7 =>
        (totals.total = 5108 /\ totals.oldTotal = 11544 /\ totals.discount = 557)

Abs(x) == IF x < 0 THEN 0 - x ELSE x

\* C9 amended: for that cart the totals are 5108 and 11544 and the discount
\* is 55.8; in every state with a positive old total the discount is the
\* tenth of a percent nearest to (1 - total / oldTotal) * 100.
C9_Discount558 ==
    /\ OnlyItem7 =>
          (totals.total = 5108 /\ totals.oldTotal = 11544 /\ totals.discount = 558)
    /\ totals.oldTotal > 0 =>
          2 * Abs(1000 * (totals.oldTotal - totals.total)
                    - totals.discount * totals.oldTotal) <= totals.oldTotal

\* the two other demo items were removed, item 7 is left and selected
C9_Witness ==
    /\ OnlyItem7
    /\ lastCall[1] = "removeItem"
    /\ totals.discount = 558

\* C10 as claimed: toggleItem with an index outside the Cart changes nothing;
\* with an index of the Cart it selects the index if it was not selected and
\* deselects it if it was.
C10_ToggleItemChecksIndex ==
    lastCall[1] = "toggleItem" =>
        LET i  == lastCall[2]
            s0 == Range(pre.selectedItems)
        IN  /\ cart = pre.cart
            /\ IF InRange(pre.cart, i)
               THEN SelectionSet = IF i \in s0 THEN s0 \ {i} ELSE s0 \cup {i}
               ELSE selectedItems = pre.selectedItems


\* C11 as claimed: removeItem with an index outside the Cart, negative or
\* past the end, removes no item and drops or shifts no selected index.
C11_RemoveItemChecksIndex ==
    (lastCall[1] = "removeItem" /\ ~ InRange(pre.cart, lastCall[2])) =>
        (cart = pre.cart /\ selectedItems = pre.selectedItems)


\* C13: checkout with an empty Selection Set (the empty cart included)
\* reports the EmptySelection notification and no success notification;
\* with a non-empty Selection Set it reports success with the sum of
\* price * quantity over the selected items of the current Cart; in both
\* cases the Cart and the Selection Set are left as they were.
C13_Checkout ==
    lastCall = <<"checkout">> =>
        /\ cart = pre.cart
        /\ selectedItems = pre.selectedItems
        /\ SelectionSet = {} => notified = <<"emptySelection">>
        /\ SelectionSet # {} =>
              notified = <<"processed",
                           SumOver(cart, SelectionSet, Len(cart), FALSE),
                           "integer">>

\* a checkout of the first item at quantity 2 and the third item
C13_Witness ==
    /\ lastCall = <<"checkout">>
    /\ SelectionSet = {0, 2}
    /\ cart[1].quantity = 2
    /\ notified = <<"processed", 2 * 5108 + 10895, "integer">>

\* a checkout with nothing selected, on the emptied cart
C13_WitnessEmptyCart ==
    /\ lastCall = <<"checkout">>
    /\ cart = << >>
    /\ notified = <<"emptySelection">>


\* C19: no two items of the Cart have the same id, although the catalog
\* holds several records with one id; an item with a catalog id carries the
\* prices of the first catalog record with that id.
C19_UniqueIds ==
    /\ \A j, k \in DOMAIN cart : j # k => cart[j].id # cart[k].id
    /\ \A k \in DOMAIN cart :
          cart[k].id \in RenderedIds =>
              Product(cart[k].id, cart[k].price, cart[k].oldPrice)
                  = FirstRecord(cart[k].id)

\* addAllToCart on a cart without id 14, of which the catalog has more than
\* one record: exactly one item with id 14 is appended
C19_Witness ==
    /\ lastCall = <<"addAllToCart">>
    /\ 14 \notin CartIds(pre.cart)
    /\ Len(SelectSeq(allProducts, LAMBDA p : p.id = 14)) > 1
    /\ Cardinality({ k \in DOMAIN cart : cart[k].id = 14 }) = 1
    /\ Len(cart) = Len(pre.cart) + Cardinality(RenderedIds)


\* the changeQty call just made kept its item: the new quantity is at least 1
KeptItem ==
    /\ lastCall[1] = "changeQty"
    /\ InRange(pre.cart, lastCall[2])
    /\ pre.cart[lastCall[2] + 1].quantity + lastCall[3] >= 1

\* C20: addToCart, addAllToCart and a changeQty that keeps its item leave
\* the Selection Set as it was, so an appended item is unselected and the
\* totals after an append are those of the Cart before it; toggleSelectAll,
\* toggleItem and checkout leave the Cart as it was.
C20_Frame ==
    /\ (lastCall[1] \in {"addToCart", "addAllToCart"} \/ KeptItem) =>
          selectedItems = pre.selectedItems
    /\ (lastCall[1] \in {"addToCart", "addAllToCart"}
            /\ Len(cart) > Len(pre.cart)) =>
          /\ \A k \in Len(pre.cart)..(Len(cart) - 1) : k \notin SelectionSet
          /\ totals.total
                = SumOver(pre.cart, SelectionSet, Len(pre.cart), FALSE)
          /\ totals.oldTotal
                = SumOver(pre.cart, SelectionSet, Len(pre.cart), TRUE)
    /\ lastCall[1] \in {"toggleSelectAll", "toggleItem", "checkout"} =>
          cart = pre.cart

\* addToCart(14) appended a fourth item to the fully selected demo cart: the
\* selection and the totals are still those of the three demo items
C20_Witness ==
    /\ lastCall = <<"addToCart", 14>>
    /\ pre.cart = initialCartItems
    /\ Len(cart) = 4
    /\ selectedItems = <<0, 1, 2>>
    /\ totals.total = 5108 + 4016 + 10895

\* changeQty(0, 1) kept the selected first item and the selection
C20_WitnessKept ==
    /\ lastCall = <<"changeQty", 0, 1>>
    /\ KeptItem
    /\ 0 \in SelectionSet
    /\ cart[1].quantity = 2


\* C14: a pointer-down on the handle followed at once by a pointer-up emits
\* no reposition and leaves the handle where it was; the cart view is open
\* afterwards: opened when it was closed, untouched when it was open.
C14_Click ==
    (gesture.event = "up" /\ gesture.phase = "click") =>
        /\ "reposition" \notin gesture.emitted
        /\ ~ gesture.repositioned
        /\ floatingCart.left = gesture.downLeft
        /\ floatingCart.top = gesture.downTop
        /\ cartViewDisplay # "none"
        /\ gesture.downDisplay = "none" =>
              (gesture.emitted = {"openCartView"}
                  /\ cartViewDisplay = "block")
        /\ gesture.downDisplay # "none" =>
              (gesture.emitted = {} /\ cartViewDisplay = gesture.downDisplay)

\* a click on the handle has opened the closed cart view
C14_Witness ==
    /\ gesture.event = "up"
    /\ gesture.phase = "click"
    /\ gesture.downDisplay = "none"
    /\ cartViewDisplay = "block"

\* a click on the handle with the cart view open
C14_WitnessOpen ==
    /\ gesture.event = "up"
    /\ gesture.phase = "click"
    /\ gesture.downDisplay = "block"
    /\ cartViewDisplay = "block"

\* C15: a pointer-down on the handle, one or more pointer-moves and then a
\* pointer-up emit at least one reposition and no "open cart view": the
\* view is as it was before the pointer-down and the handle is at the last
\* position emitted.
C15_Drag ==
    (gesture.event = "up" /\ gesture.phase = "dragged") =>
        /\ gesture.repositioned
        /\ "openCartView" \notin gesture.emitted
        /\ cartViewDisplay = gesture.downDisplay
        /\ floatingCart.left = gesture.lastLeft
        /\ floatingCart.top = gesture.lastTop

\* a drag that moved the handle ended with the cart view still closed
C15_Witness ==
    /\ gesture.event = "up"
    /\ gesture.phase = "dragged"
    /\ gesture.downDisplay = "none"
    /\ cartViewDisplay = "none"
    /\ floatingCart.left # gesture.downLeft

\* the handle's position is within 0..(viewport size - handle size)
WithinViewport ==
    /\ floatingCart.left \in 0..(viewport.innerWidth
                                    - floatingCart.offsetWidth)
    /\ floatingCart.top \in 0..(viewport.innerHeight
                                    - floatingCart.offsetHeight)

\* the position is the pointer minus the offset where that is in the range
UnclampedInRange ==
    /\ (gesture.clientX - offsetX) \in
            0..(viewport.innerWidth - floatingCart.offsetWidth)
          => floatingCart.left = gesture.clientX - offsetX
    /\ (gesture.clientY - offsetY) \in
            0..(viewport.innerHeight - floatingCart.offsetHeight)
          => floatingCart.top = gesture.clientY - offsetY

\* C16 as claimed: after a pointer-move processed while pressing, for any
\* sizes of the viewport and the handle, 0 <= x <= viewportWidth -
\* handleWidth and 0 <= y <= viewportHeight - handleHeight, and the position
\* is the pointer minus the offset where that lies in the range.
C16_ClampedAnySize ==
    (gesture.event = "move" /\ gesture.wasDragging) =>
        (WithinViewport /\ UnclampedInRange)

\* C16, amended: the position is never negative; on an axis where the handle
\* is no larger than the viewport it is at most viewport size - handle size,
\* and on an axis where the handle is larger it is 0; it is the pointer
\* minus the offset where that lies in 0..(viewport size - handle size).
C16_ClampedWhenFits ==
    (gesture.event = "move" /\ gesture.wasDragging) =>
        /\ floatingCart.left >= 0
        /\ floatingCart.top >= 0
        /\ IF floatingCart.offsetWidth <= viewport.innerWidth
           THEN floatingCart.left
                    <= viewport.innerWidth - floatingCart.offsetWidth
           ELSE floatingCart.left = 0
        /\ IF floatingCart.offsetHeight <= viewport.innerHeight
           THEN floatingCart.top
                    <= viewport.innerHeight - floatingCart.offsetHeight
           ELSE floatingCart.top = 0
        /\ UnclampedInRange

\* a pointer-move past the right edge and above the top edge: x is clamped
\* to viewport width - handle width, y to 0
C16_Witness ==
    /\ gesture.event = "move"
    /\ gesture.wasDragging
    /\ floatingCart.offsetWidth <= viewport.innerWidth
    /\ gesture.clientX - offsetX
            > viewport.innerWidth - floatingCart.offsetWidth
    /\ floatingCart.left = viewport.innerWidth - floatingCart.offsetWidth
    /\ gesture.clientY - offsetY < 0
    /\ floatingCart.top = 0

\* C18 as claimed: "open cart view" is emitted only by a pointer-up that
\* ends a press; a pointer-up while idle emits nothing and changes no view;
\* a pointer-move while idle emits no reposition.
C18_OpenOnlyAfterPress ==
    /\ "openCartView" \in gesture.emitted =>
          (gesture.event = "up" /\ gesture.wasDragging)
    /\ (gesture.event = "up" /\ ~ gesture.wasDragging) =>
          (gesture.emitted = {} /\ cartViewDisplay = gesture.displayBefore)
    /\ (gesture.event = "move" /\ ~ gesture.wasDragging) =>
          "reposition" \notin gesture.emitted


\* C17: however showNotification calls and timer callbacks interleave, at
\* most one notification is in the document; a call leaves exactly its own
\* new notification there, and a timer callback removes at most the
\* notification of the call that scheduled it, never another one.
C17_OneNotification ==
    /\ Len(notifications) <= 1
    /\ timerLog.event = "show" =>
          (Len(notifications) = 1 /\ notifications[1].id = timerLog.id)
    /\ timerLog.event \in {"fade", "remove"} =>
          \A k \in DOMAIN timerLog.before :
              timerLog.before[k].id # timerLog.id =>
                  \E j \in DOMAIN notifications :
                      notifications[j].id = timerLog.before[k].id

\* the removing callback of the first, superseded notification has run
\* while the second notification is on display
C17_Witness ==
    /\ timerLog.event = "remove"
    /\ timerLog.id = 1
    /\ Len(notifications) = 1
    /\ notifications[1].id = 2
    /\ timerLog.before = notifications


\* C12 as claimed: changeQty leaves the Cart and the Selection Set as they
\* were whenever the index is outside the Cart or the change is not an
\* integer: a value that is not a number, a fractional number or NaN.
C12_ChangeQtyChecksInput ==
    (/\ lastCall[1] = "changeQty"
     /\ (~ InRange(pre.cart, lastCall[2]) \/ Len(lastCall) = 4)) =>
        (cart = pre.cart /\ selectedItems = pre.selectedItems)

\* the part of C12 the source keeps: an index outside the Cart, or a change
\* that is not of type number, changes nothing
C12_RejectedInput ==
    (/\ lastCall[1] = "changeQty"
     /\ (~ InRange(pre.cart, lastCall[2])
            \/ (Len(lastCall) = 4 /\ lastCall[4] = "string"))) =>
        (cart = pre.cart /\ selectedItems = pre.selectedItems)

=============================================================================
